---- MODULE Spec2Model ----
(***************************************************************************)
(* A model of study_planner.py: the scheduling core (normalize_weights,    *)
(* distribute_time, split_into_sessions, build_schedule) and the chat      *)
(* handler that persists the last plan in planner_memory.json.             *)
(*                                                                         *)
(* A Python dict is a record [keys, val]: keys is the insertion order,     *)
(* val the mapping.  A normalised weight p / s is the pair <<p, s>>; for   *)
(* the weights and totals of this model int(total * (p / s)) in IEEE       *)
(* double arithmetic equals the exact floor of total * p / s.  A datetime  *)
(* is a number of minutes; strftime("%H:%M") keeps the time of day only.   *)
(***************************************************************************)
EXTENDS Integers, Sequences, FiniteSets, TLC

VARIABLES pc, call, dt, ss, bs, file, reply, built

vars == <<pc, call, dt, ss, bs, file, reply, built>>

-----------------------------------------------------------------------------
(* Bounds of the model.                                                    *)

MaxWeight == 2

MaxTotal == 5

MaxParam == 2

MaxMinBlock == 3

MaxMinutes == 9

MaxFocus == 3

(* Constants of the program.                                               *)

MIN_BLOCK == 25

DEFAULT_FOCUS_LEN == 45

DEFAULT_SHORT_BREAK == 10

DEFAULT_LONG_BREAK_EVERY == 3

DEFAULT_LONG_BREAK_LEN == 20

EXAMPLE_TOTAL == 180

SPLIT_FOCUS_LEN == 50

SPLIT_SHORT_BREAK == 10

SUBJECTS == <<"Math", "Python", "AI">>

EXAMPLE_PRIORITIES ==
    [keys |-> SUBJECTS, val |-> ("Math" :> 3) @@ ("Python" :> 2) @@ ("AI" :> 4)]

None == <<>>

Idle == <<>>

-----------------------------------------------------------------------------
(* Helpers.                                                                *)

Min(a, b) == IF a <= b THEN a ELSE b

Range(s) == {s[j] : j \in DOMAIN s}

RECURSIVE SumSeq(_, _)
SumSeq(f, s) == IF s = <<>> THEN 0 ELSE f[Head(s)] + SumSeq(f, Tail(s))

SumValues(d) == SumSeq(d.val, d.keys)

-----------------------------------------------------------------------------
(* normalize_weights                                                       *)

normalize_weights_Uniform(priorities) ==
    [keys |-> priorities.keys,
     val  |-> [k \in DOMAIN priorities.val |-> <<1, Len(priorities.keys)>>]]

normalize_weights(priorities) ==
    LET s == SumValues(priorities)
        n == Len(priorities.keys)
    IN  [keys |-> priorities.keys,
         val  |-> [k \in DOMAIN priorities.val |->
                      IF s = 0 THEN <<1, n>> ELSE <<priorities.val[k], s>>]]

-----------------------------------------------------------------------------
(* distribute_time                                                         *)

IntOfProduct(total_minutes, w) == (total_minutes * w[1]) \div w[2]

dt_zero(total_minutes, weights, min_block) ==
    [total_minutes |-> total_minutes, min_block |-> min_block,
     keys |-> weights.keys,
     raw |-> [k \in DOMAIN weights.val |-> 0], diff |-> 0, i |-> 0]

dt_init_DiffBeforeBump(total_minutes, weights, min_block) ==
    LET raw0 == [k \in DOMAIN weights.val |->
                    IntOfProduct(total_minutes, weights.val[k])]
        raw1 == [k \in DOMAIN raw0 |->
                    IF raw0[k] = 0 /\ total_minutes >= min_block
                    THEN min_block ELSE raw0[k]]
    IN  [total_minutes |-> total_minutes, min_block |-> min_block,
         keys |-> weights.keys, raw |-> raw1,
         diff |-> total_minutes - SumSeq(raw0, weights.keys), i |-> 0]

dt_init(total_minutes, weights, min_block) ==
    LET raw0 == [k \in DOMAIN weights.val |->
                    IntOfProduct(total_minutes, weights.val[k])]
        raw1 == [k \in DOMAIN raw0 |->
                    IF raw0[k] = 0 /\ total_minutes >= min_block
                    THEN min_block ELSE raw0[k]]
    IN  [total_minutes |-> total_minutes, min_block |-> min_block,
         keys |-> weights.keys, raw |-> raw1,
         diff |-> total_minutes - SumSeq(raw1, weights.keys), i |-> 0]

dt_running(f) == f.diff # 0 /\ f.keys # <<>>

dt_step_RelaxedFloor(f) ==
    LET k == f.keys[(f.i % Len(f.keys)) + 1]
        g == IF f.diff > 0
             THEN [f EXCEPT !.raw[k] = @ + 1, !.diff = @ - 1]
             ELSE IF f.raw[k] > 0
                  THEN [f EXCEPT !.raw[k] = @ - 1, !.diff = @ + 1]
                  ELSE f
    IN  [g EXCEPT !.i = (@ + 1) % Len(f.keys)]

(* One iteration of the while loop.  Only i % len(keys) is ever read, so   *)
(* i is kept modulo len(keys).                                             *)
dt_step(f) ==
    LET k == f.keys[(f.i % Len(f.keys)) + 1]
        g == IF f.diff > 0
             THEN [f EXCEPT !.raw[k] = @ + 1, !.diff = @ - 1]
             ELSE IF f.raw[k] > f.min_block
                  THEN [f EXCEPT !.raw[k] = @ - 1, !.diff = @ + 1]
                  ELSE f
    IN  [g EXCEPT !.i = (@ + 1) % Len(f.keys)]

(* The loop can make no further change: the sum is over and no allocation  *)
(* exceeds min_block, so every later iteration only advances i.            *)
dt_stuck(f) == f.diff < 0 /\ \A k \in Range(f.keys) : f.raw[k] <= f.min_block

RECURSIVE dt_loop(_)
dt_loop(f) == IF dt_running(f) /\ ~dt_stuck(f) THEN dt_loop(dt_step(f)) ELSE f

distribute_time(total_minutes, weights, min_block) ==
    IF total_minutes <= 0
    THEN dt_zero(total_minutes, weights, min_block)
    ELSE dt_loop(dt_init(total_minutes, weights, min_block))

-----------------------------------------------------------------------------
(* split_into_sessions                                                     *)

ss_init(minutes, focus_len, short_break) ==
    [focus_len |-> focus_len, short_break |-> short_break,
     remaining |-> minutes, plan |-> <<>>]

ss_step_FullBreak(f) ==
    IF f.remaining <= f.focus_len
    THEN [f EXCEPT !.plan = Append(@, <<f.remaining, "study">>), !.remaining = 0]
    ELSE LET r == f.remaining - f.focus_len
             p == Append(f.plan, <<f.focus_len, "study">>)
         IN  IF r > 0
             THEN [f EXCEPT !.plan = Append(p, <<f.short_break, "break">>),
                            !.remaining = r - f.short_break]
             ELSE [f EXCEPT !.plan = p, !.remaining = r]

ss_step_AbsorbTail(f) ==
    IF f.remaining <= f.focus_len + f.short_break
    THEN [f EXCEPT !.plan = Append(@, <<f.remaining, "study">>), !.remaining = 0]
    ELSE LET r == f.remaining - f.focus_len
             p == Append(f.plan, <<f.focus_len, "study">>)
             b == Min(f.short_break, r)
         IN  [f EXCEPT !.plan = Append(p, <<b, "break">>), !.remaining = r - b]

(* One iteration of the while loop.                                        *)
ss_step(f) ==
    IF f.remaining <= f.focus_len
    THEN [f EXCEPT !.plan = Append(@, <<f.remaining, "study">>), !.remaining = 0]
    ELSE LET r == f.remaining - f.focus_len
             p == Append(f.plan, <<f.focus_len, "study">>)
         IN  IF r > 0
             THEN LET b == Min(f.short_break, r)
                  IN  [f EXCEPT !.plan = Append(p, <<b, "break">>),
                                !.remaining = r - b]
             ELSE [f EXCEPT !.plan = p, !.remaining = r]

RECURSIVE ss_loop(_)
ss_loop(f) == IF f.remaining > 0 THEN ss_loop(ss_step(f)) ELSE f

split_into_sessions(minutes, focus_len, short_break) ==
    ss_loop(ss_init(minutes, focus_len, short_break)).plan

-----------------------------------------------------------------------------
(* build_schedule                                                          *)

strftime(t) == <<(t \div 60) % 24, t % 60>>

bs_init(start_time, per_subject) ==
    [start_time |-> start_time, per_subject |-> per_subject, rows |-> <<>>, cur |-> start_time,
     study_block_counter |-> 0, done |-> 0, subj |-> "", sessions |-> <<>>]

Row(cur, end, dur, kind, subj) ==
    [start |-> strftime(cur), end |-> strftime(end), duration_min |-> dur,
     type |-> kind, subject |-> IF kind = "study" THEN subj ELSE ""]

bs_emit_CountEveryBlock(f, dur, kind, long_break_every, long_break_len) ==
    LET end == f.cur + dur
        c   == f.study_block_counter + 1
        f1  == [f EXCEPT !.rows = Append(@, Row(f.cur, end, dur, kind, f.subj)),
                         !.cur = end, !.study_block_counter = c]
    IN  IF c % long_break_every = 0
        THEN LET l_end == end + long_break_len
             IN  [f1 EXCEPT !.rows = Append(@, Row(end, l_end, long_break_len, "break", "")),
                            !.cur = l_end]
        ELSE f1

bs_emit_StaleCursor(f, dur, kind, long_break_every, long_break_len) ==
    LET end == f.cur + dur
        f1  == [f EXCEPT !.rows = Append(@, Row(f.cur, end, dur, kind, f.subj)),
                         !.cur = end]
    IN  IF kind = "study"
        THEN LET c     == f.study_block_counter + 1
                 f2    == [f1 EXCEPT !.study_block_counter = c]
                 l_end == end + long_break_len
             IN  IF c % long_break_every = 0
                 THEN [f2 EXCEPT !.rows = Append(@, Row(end, l_end, long_break_len, "break", ""))]
                 ELSE f2
        ELSE f1

(* One iteration of the inner for loop: the block of the session, then the *)
(* long break when the study-block counter reaches a multiple.             *)
bs_emit(f, dur, kind, long_break_every, long_break_len) ==
    LET end == f.cur + dur
        f1  == [f EXCEPT !.rows = Append(@, Row(f.cur, end, dur, kind, f.subj)),
                         !.cur = end]
    IN  IF kind = "study"
        THEN LET c     == f.study_block_counter + 1
                 f2    == [f1 EXCEPT !.study_block_counter = c]
                 l_end == end + long_break_len
             IN  IF c % long_break_every = 0
                 THEN [f2 EXCEPT !.rows = Append(@, Row(end, l_end, long_break_len, "break", "")),
                                 !.cur = l_end]
                 ELSE f2
        ELSE f1

(* The head of the outer for loop: the next subject and its sessions.      *)
bs_subject(f, subjects, focus_len, short_break) ==
    LET subj == subjects[f.done + 1]
    IN  [f EXCEPT !.done = @ + 1, !.subj = subj,
                  !.sessions = split_into_sessions(f.per_subject[subj], focus_len, short_break)]

bs_block(f, long_break_every, long_break_len) ==
    [bs_emit(f, Head(f.sessions)[1], Head(f.sessions)[2], long_break_every, long_break_len)
        EXCEPT !.sessions = Tail(f.sessions)]

RECURSIVE bs_loop(_, _)
bs_loop(f, c) ==
    IF f.sessions # <<>>
    THEN bs_loop(bs_block(f, c.long_break_every, c.long_break_len), c)
    ELSE IF f.done < Len(c.subjects)
         THEN bs_loop(bs_subject(f, c.subjects, c.focus_len, c.short_break), c)
         ELSE f

(* pd.DataFrame(rows): the rows held column by column.                     *)
DataFrame(rows) ==
    [n            |-> Len(rows),
     start        |-> [j \in DOMAIN rows |-> rows[j].start],
     end          |-> [j \in DOMAIN rows |-> rows[j].end],
     duration_min |-> [j \in DOMAIN rows |-> rows[j].duration_min],
     type         |-> [j \in DOMAIN rows |-> rows[j].type],
     subject      |-> [j \in DOMAIN rows |-> rows[j].subject]]

to_dict_records(df) ==
    [j \in 1..df.n |->
        [start |-> df.start[j], end |-> df.end[j],
         duration_min |-> df.duration_min[j], type |-> df.type[j],
         subject |-> df.subject[j]]]

(* start_time or datetime.now(): an explicit start_time is <<t>>.           *)
StartOf(c, now) == IF c.start_time = None THEN now ELSE c.start_time[1]

MinBlockOf(c) == Min(MIN_BLOCK, c.total_minutes)

(* build_schedule as one call: the distribution, or hang when the          *)
(* reconciliation loop of distribute_time cannot end.                      *)
build_schedule(c, now) ==
    LET d == distribute_time(c.total_minutes, normalize_weights(c.priorities),
                             MinBlockOf(c))
    IN  IF dt_running(d)
        THEN [hang |-> TRUE, df |-> DataFrame(<<>>)]
        ELSE [hang |-> FALSE,
              df   |-> DataFrame(bs_loop(bs_init(StartOf(c, now), d.raw), c).rows)]

-----------------------------------------------------------------------------
(* The memory file and the rendering of a plan.                            *)

Absent == [exists |-> FALSE, text |-> <<>>]

Field(pairs, name) == pairs[CHOOSE j \in DOMAIN pairs : pairs[j][1] = name][2]

(* json.dumps / json.loads of {"last_plan": [...]}: every row is written   *)
(* as its five members in order and read back member by member.            *)
json_dumps(mem) ==
    [last_plan |-> [j \in DOMAIN mem.last_plan |->
        <<<<"start", mem.last_plan[j].start>>,
          <<"end", mem.last_plan[j].end>>,
          <<"duration_min", mem.last_plan[j].duration_min>>,
          <<"type", mem.last_plan[j].type>>,
          <<"subject", mem.last_plan[j].subject>>>>]]

json_loads(text) ==
    [last_plan |-> [j \in DOMAIN text.last_plan |->
        [start        |-> Field(text.last_plan[j], "start"),
         end          |-> Field(text.last_plan[j], "end"),
         duration_min |-> Field(text.last_plan[j], "duration_min"),
         type         |-> Field(text.last_plan[j], "type"),
         subject      |-> Field(text.last_plan[j], "subject")]]]

load_memory(f) == IF f.exists THEN json_loads(f.text) ELSE [last_plan |-> <<>>]

save_memory(mem) == [exists |-> TRUE, text |-> json_dumps(mem)]

save_last_plan_Append(f, df) ==
    save_memory([load_memory(f) EXCEPT !.last_plan = @ \o to_dict_records(df)])

save_last_plan(f, df) ==
    save_memory([load_memory(f) EXCEPT !.last_plan = to_dict_records(df)])

load_last_plan(f) ==
    LET mem == load_memory(f)
    IN  IF mem.last_plan # <<>> THEN DataFrame(mem.last_plan) ELSE DataFrame(<<>>)

df_to_markdown(df) ==
    [j \in 1..df.n |->
        <<df.start[j], df.end[j], df.duration_min[j], df.type[j], df.subject[j]>>]

-----------------------------------------------------------------------------
(* The inputs.                                                             *)

PriorityMapsOver(weights) ==
    UNION {{[keys |-> SubSeq(SUBJECTS, 1, n), val |-> v] :
               v \in [Range(SubSeq(SUBJECTS, 1, n)) -> weights]} :
           n \in 1..Len(SUBJECTS)}

PriorityMaps == PriorityMapsOver(0..MaxWeight)

Reverse(s) == [j \in DOMAIN s |-> s[Len(s) + 1 - j]]

LateEvening == <<23 * 60 + 58>>

NowTimes == {9 * 60}

WithDefaults(subjects, priorities, total_minutes, start_time) ==
    [subjects |-> subjects, priorities |-> priorities,
     total_minutes |-> total_minutes, start_time |-> start_time,
     focus_len |-> DEFAULT_FOCUS_LEN, short_break |-> DEFAULT_SHORT_BREAK,
     long_break_every |-> DEFAULT_LONG_BREAK_EVERY,
     long_break_len |-> DEFAULT_LONG_BREAK_LEN]

ExampleCall == WithDefaults(SUBJECTS, EXAMPLE_PRIORITIES, EXAMPLE_TOTAL, None)

Orders(keys) == {keys, Reverse(keys)}

SmallCalls ==
    {[subjects |-> p.keys, priorities |-> p, total_minutes |-> t,
      start_time |-> LateEvening, focus_len |-> f, short_break |-> b,
      long_break_every |-> n, long_break_len |-> l] :
        p \in PriorityMaps, t \in -1..MaxTotal, f \in 1..MaxParam,
        b \in 1..MaxParam, n \in 1..MaxParam, l \in 1..MaxParam}

DefaultCalls ==
    UNION {{WithDefaults(o, p, t, None) :
               o \in Orders(p.keys),
               t \in {EXAMPLE_TOTAL, 2 * MIN_BLOCK, MIN_BLOCK + 1}} :
           p \in PriorityMaps \cup {EXAMPLE_PRIORITIES}}

BuildCalls == SmallCalls \cup DefaultCalls

DistCalls ==
    {[total_minutes |-> t, weights |-> normalize_weights(p), min_block |-> m] :
        p \in PriorityMaps, t \in -1..MaxTotal,
        m \in (0..MaxMinBlock) \cup {MIN_BLOCK}}

SplitCalls ==
    {[minutes |-> m, focus_len |-> f, short_break |-> b] :
        m \in -1..MaxMinutes, f \in 1..MaxFocus, b \in 1..MaxParam}
    \cup {[minutes |-> m, focus_len |-> SPLIT_FOCUS_LEN,
           short_break |-> SPLIT_SHORT_BREAK] :
             m \in {0, DEFAULT_FOCUS_LEN, 2 * SPLIT_FOCUS_LEN + 2 * SPLIT_SHORT_BREAK}}

(* What wizard() can return: the parsed priorities (1.0 where no number is *)
(* given, the example when nothing is entered), the total and start_dt.    *)
WizardResults ==
    {WithDefaults(p.keys, p, t, s) :
        p \in PriorityMapsOver({0, 1}),
        t \in (-1..MaxTotal) \cup {MIN_BLOCK + 1},
        s \in {None, LateEvening}}
    \cup {WithDefaults(SUBJECTS, EXAMPLE_PRIORITIES, t, s) :
            t \in (0..MaxTotal) \cup {EXAMPLE_TOTAL}, s \in {None, LateEvening}}

-----------------------------------------------------------------------------
(* build_schedule, step by step.                                           *)

NoChat == file = Absent /\ reply = Idle /\ built = Idle

Init ==
    /\ pc = "build_call"
    /\ call \in BuildCalls
    /\ dt = Idle /\ ss = Idle /\ bs = Idle
    /\ NoChat

(* Lines 96-98 and the head of distribute_time (lines 51-59).              *)
BuildCall ==
    /\ pc = "build_call"
    /\ \E now \in NowTimes : bs' = [start_time |-> StartOf(call, now)]
    /\ dt' = IF call.total_minutes <= 0
             THEN dt_zero(call.total_minutes, normalize_weights(call.priorities),
                          MinBlockOf(call))
             ELSE dt_init(call.total_minutes, normalize_weights(call.priorities),
                          MinBlockOf(call))
    /\ pc' = IF call.total_minutes <= 0 THEN "dist_return" ELSE "dist_loop"
    /\ UNCHANGED <<call, ss, file, reply, built>>

DistStep ==
    /\ pc = "dist_loop"
    /\ dt_running(dt)
    /\ dt' = dt_step(dt)
    /\ UNCHANGED <<pc, call, ss, bs, file, reply, built>>

DistReturn ==
    /\ pc = "dist_loop"
    /\ ~dt_running(dt)
    /\ pc' = "dist_return"
    /\ UNCHANGED <<call, dt, ss, bs, file, reply, built>>

BuildRows ==
    /\ pc = "dist_return"
    /\ bs' = bs_init(bs.start_time, dt.raw)
    /\ pc' = "rows"
    /\ UNCHANGED <<call, dt, ss, file, reply, built>>

BuildSubject ==
    /\ pc = "rows"
    /\ bs.sessions = <<>>
    /\ bs.done < Len(call.subjects)
    /\ bs' = bs_subject(bs, call.subjects, call.focus_len, call.short_break)
    /\ UNCHANGED <<pc, call, dt, ss, file, reply, built>>

BuildBlock ==
    /\ pc = "rows"
    /\ bs.sessions # <<>>
    /\ bs' = bs_block(bs, call.long_break_every, call.long_break_len)
    /\ UNCHANGED <<pc, call, dt, ss, file, reply, built>>

BuildReturn ==
    /\ pc = "rows"
    /\ bs.sessions = <<>>
    /\ bs.done = Len(call.subjects)
    /\ pc' = "done"
    /\ UNCHANGED <<call, dt, ss, bs, file, reply, built>>

Next ==
    \/ BuildCall
    \/ DistStep
    \/ DistReturn
    \/ BuildRows
    \/ BuildSubject
    \/ BuildBlock
    \/ BuildReturn

Spec == Init /\ [][Next]_vars

FairSpec == Spec /\ WF_vars(Next)

-----------------------------------------------------------------------------
(* distribute_time on its own, with any min_block.                         *)

DistInit ==
    /\ pc = "dist_call"
    /\ call \in DistCalls
    /\ dt = Idle /\ ss = Idle /\ bs = Idle
    /\ NoChat

DistCall ==
    /\ pc = "dist_call"
    /\ dt' = IF call.total_minutes <= 0
             THEN dt_zero(call.total_minutes, call.weights, call.min_block)
             ELSE dt_init(call.total_minutes, call.weights, call.min_block)
    /\ pc' = IF call.total_minutes <= 0 THEN "dist_return" ELSE "dist_loop"
    /\ UNCHANGED <<call, ss, bs, file, reply, built>>

DistNext ==
    \/ DistCall
    \/ DistStep
    \/ DistReturn

DistSpec == DistInit /\ [][DistNext]_vars

-----------------------------------------------------------------------------
(* split_into_sessions on its own.                                         *)

SplitInit ==
    /\ pc = "split_call"
    /\ call \in SplitCalls
    /\ dt = Idle /\ ss = Idle /\ bs = Idle
    /\ NoChat

SplitCall ==
    /\ pc = "split_call"
    /\ ss' = ss_init(call.minutes, call.focus_len, call.short_break)
    /\ pc' = "split_loop"
    /\ UNCHANGED <<call, dt, bs, file, reply, built>>

SplitStep ==
    /\ pc = "split_loop"
    /\ ss.remaining > 0
    /\ ss' = ss_step(ss)
    /\ UNCHANGED <<pc, call, dt, bs, file, reply, built>>

SplitReturn ==
    /\ pc = "split_loop"
    /\ ss.remaining <= 0
    /\ pc' = "split_return"
    /\ UNCHANGED <<call, dt, ss, bs, file, reply, built>>

SplitNext ==
    \/ SplitCall
    \/ SplitStep
    \/ SplitReturn

SplitSpec == SplitInit /\ [][SplitNext]_vars

FairSplitSpec == SplitSpec /\ WF_vars(SplitNext)

-----------------------------------------------------------------------------
(* handle_message: one action per command.  built records the plan of the  *)
(* latest example or plan command, emptied by reset.                       *)

ChatInit ==
    /\ pc = "chat"
    /\ call = Idle /\ dt = Idle /\ ss = Idle /\ bs = Idle
    /\ file = Absent
    /\ reply = [kind |-> "start", md |-> <<>>]
    /\ built = DataFrame(<<>>)

HandleExample ==
    /\ pc = "chat"
    /\ \E now \in NowTimes :
         LET df == build_schedule(ExampleCall, now).df
         IN  /\ file' = save_last_plan(file, df)
             /\ reply' = [kind |-> "example", md |-> df_to_markdown(df)]
             /\ built' = df
    /\ UNCHANGED <<pc, call, dt, ss, bs>>

HandleLast ==
    /\ pc = "chat"
    /\ LET df == load_last_plan(file)
       IN  reply' = IF df.n = 0
                    THEN [kind |-> "no_plan", md |-> <<>>]
                    ELSE [kind |-> "last", md |-> df_to_markdown(df)]
    /\ UNCHANGED <<pc, call, dt, ss, bs, file, built>>

HandleSave ==
    /\ pc = "chat"
    /\ LET df == load_last_plan(file)
       IN  IF df.n = 0
           THEN /\ reply' = [kind |-> "nothing_to_save", md |-> <<>>]
                /\ file' = file
           ELSE /\ file' = save_last_plan(file, df)
                /\ reply' = [kind |-> "saved", md |-> <<>>]
    /\ UNCHANGED <<pc, call, dt, ss, bs, built>>

HandleReset ==
    /\ pc = "chat"
    /\ file' = save_memory([last_plan |-> <<>>])
    /\ reply' = [kind |-> "cleared", md |-> <<>>]
    /\ built' = DataFrame(<<>>)
    /\ UNCHANGED <<pc, call, dt, ss, bs>>

(* A plan command whose distribution cannot end never returns: nothing is  *)
(* saved and no later message is handled.                                  *)
HandlePlan ==
    /\ pc = "chat"
    /\ \E params \in WizardResults, now \in NowTimes :
         LET res == build_schedule(params, now)
         IN  IF res.hang
             THEN /\ pc' = "hung"
                  /\ UNCHANGED <<file, reply, built>>
             ELSE /\ pc' = pc
                  /\ file' = save_last_plan(file, res.df)
                  /\ reply' = [kind |-> "plan", md |-> df_to_markdown(res.df)]
                  /\ built' = res.df
    /\ UNCHANGED <<call, dt, ss, bs>>

HandleOther ==
    /\ pc = "chat"
    /\ reply' = [kind |-> "help", md |-> <<>>]
    /\ UNCHANGED <<pc, call, dt, ss, bs, file, built>>

ChatNext ==
    \/ HandleExample
    \/ HandleLast
    \/ HandleSave
    \/ HandleReset
    \/ HandlePlan
    \/ HandleOther

ChatSpec == ChatInit /\ [][ChatNext]_vars

-----------------------------------------------------------------------------
(* What the properties speak of.                                           *)

RECURSIVE SumDur(_)
SumDur(rows) ==
    IF rows = <<>> THEN 0 ELSE Head(rows).duration_min + SumDur(Tail(rows))

RECURSIVE SumPlan(_)
SumPlan(plan) == IF plan = <<>> THEN 0 ELSE Head(plan)[1] + SumPlan(Tail(plan))

StudyIndices(rows) == {j \in DOMAIN rows : rows[j].type = "study"}

StudyRank(rows, j) == Cardinality({m \in StudyIndices(rows) : m <= j})

StudyMinutes(rows) ==
    SumDur(SelectSeq(rows, LAMBDA r : r.type = "study"))

ClockPlus(hm, d) == strftime(hm[1] * 60 + hm[2] + d)

FollowedByLongBreak(rows, j) ==
    /\ j < Len(rows)
    /\ rows[j + 1].type = "break"
    /\ rows[j + 1].duration_min = call.long_break_len

LongBreakCadence ==
    \A j \in StudyIndices(bs.rows) :
        FollowedByLongBreak(bs.rows, j)
            <=> (StudyRank(bs.rows, j) % call.long_break_every = 0)

EndsWithStudy == ss.plan[Len(ss.plan)][2] = "study"

Persisted == load_memory(file).last_plan

-----------------------------------------------------------------------------
(* C1: when distribute_time returns for a total above zero, every          *)
(* allocation is a non-negative integer and the allocations sum to the     *)
(* total.                                                                  *)
C1_AllocationSumsToTotal ==
    (pc = "dist_return" /\ call.total_minutes > 0)
        => /\ \A k \in Range(dt.keys) : dt.raw[k] \in Nat
           /\ SumSeq(dt.raw, dt.keys) = call.total_minutes

C1_Witness ==
    /\ pc = "dist_return"
    /\ call.total_minutes > 0
    /\ call.min_block > 0
    /\ \E k \in Range(dt.keys) :
          /\ IntOfProduct(call.total_minutes, call.weights.val[k]) = 0
          /\ dt.raw[k] = call.min_block
    /\ \E k \in Range(dt.keys) :
          dt.raw[k] < IntOfProduct(call.total_minutes, call.weights.val[k])

(* C2: the reconciliation loop of distribute_time, called by               *)
(* build_schedule, ends: the call leaves the loop.                         *)
C2_LoopTerminates == <>(pc \notin {"build_call", "dist_loop"})

(* C3: the blocks of a returned plan are contiguous: the first starts at   *)
(* start_time, every end is the start plus the duration on the clock,      *)
(* every later start is the previous end, and the cursor ends at           *)
(* start_time plus the sum of the durations.                               *)
C3_Contiguous ==
    pc = "done"
        => /\ bs.rows # <<>> => bs.rows[1].start = strftime(bs.start_time)
           /\ \A j \in DOMAIN bs.rows :
                 /\ bs.rows[j].end = ClockPlus(bs.rows[j].start, bs.rows[j].duration_min)
                 /\ j > 1 => bs.rows[j].start = bs.rows[j - 1].end
           /\ bs.cur = bs.start_time + SumDur(bs.rows)

C3_Witness ==
    /\ pc = "done"
    /\ Len(bs.rows) >= 4
    /\ \E j \in DOMAIN bs.rows : bs.rows[j].end[1] < bs.rows[j].start[1]
    /\ \E j \in StudyIndices(bs.rows) :
          /\ j + 2 <= Len(bs.rows)
          /\ bs.rows[j + 1].type = "break"
          /\ bs.rows[j + 2].type = "break"

(* C4 as stated: the k-th study block is followed at once by a break of    *)
(* duration long_break_len exactly when k is a multiple of                 *)
(* long_break_every.                                                       *)
C4_LongBreakIffMultiple == pc = "done" => LongBreakCadence

(* C4 amended: the same, for long_break_len above short_break, where no    *)
(* short break has the duration of a long one.                             *)
C4_LongBreakIffMultipleWhenLonger ==
    (pc = "done" /\ call.long_break_len > call.short_break) => LongBreakCadence

C4_Witness ==
    /\ pc = "done"
    /\ call.long_break_len > call.short_break
    /\ call.long_break_every >= 2
    /\ \E j \in StudyIndices(bs.rows) :
          /\ StudyRank(bs.rows, j) % call.long_break_every = 0
          /\ bs.rows[j].subject # bs.rows[1].subject
          /\ FollowedByLongBreak(bs.rows, j)
    /\ \E j \in StudyIndices(bs.rows) :
          /\ StudyRank(bs.rows, j) % call.long_break_every # 0
          /\ j < Len(bs.rows)
          /\ bs.rows[j + 1].type = "break"

(* C5 as stated: in the plan of the example the durations of the study     *)
(* blocks sum to 180.                                                      *)
C5_ExampleStudySumsToTotal ==
    (pc = "done" /\ call = ExampleCall)
        => StudyMinutes(bs.rows) = EXAMPLE_TOTAL

(* C5 amended: in the plan of the example the study blocks sum to 160, and *)
(* the blocks other than the inserted long breaks (study blocks and short  *)
(* breaks) sum to 180.                                                     *)
C5_ExampleStudyAndShortBreaks ==
    (pc = "done" /\ call = ExampleCall)
        => /\ StudyMinutes(bs.rows) = 160
           /\ SumDur(bs.rows)
                - call.long_break_len
                    * (Cardinality(StudyIndices(bs.rows)) \div call.long_break_every)
              = EXAMPLE_TOTAL

C5_Witness ==
    /\ pc = "done"
    /\ call = ExampleCall
    /\ Cardinality(StudyIndices(bs.rows)) = 5

(* C6 as stated: for minutes above zero the returned sequence ends with a  *)
(* study block.                                                            *)
C6_NoTrailingBreak ==
    (pc = "split_return" /\ call.minutes > 0) => EndsWithStudy

(* C6 amended: the returned sequence ends with a study block exactly when  *)
(* (minutes - 1) mod (focus_len + short_break) is below focus_len, and     *)
(* with a break block otherwise.                                           *)
C6_TrailingBlock ==
    (pc = "split_return" /\ call.minutes > 0)
        => (EndsWithStudy
              <=> ((call.minutes - 1) % (call.focus_len + call.short_break))
                     < call.focus_len)

C6_Witness ==
    /\ pc = "split_return"
    /\ call.minutes = 2 * SPLIT_FOCUS_LEN + 2 * SPLIT_SHORT_BREAK
    /\ ss.plan = << <<SPLIT_FOCUS_LEN, "study">>, <<SPLIT_SHORT_BREAK, "break">>,
                    <<SPLIT_FOCUS_LEN, "study">>, <<SPLIT_SHORT_BREAK, "break">> >>

(* C7: split_into_sessions returns; the sequence is empty exactly when     *)
(* minutes <= 0, otherwise it starts with a study block, alternates study  *)
(* and break, keeps study blocks within focus_len and breaks within        *)
(* short_break, and its durations sum to minutes.                          *)
SplitContract ==
    pc = "split_return"
        => /\ (ss.plan = <<>>) <=> (call.minutes <= 0)
           /\ call.minutes > 0 =>
                /\ \A j \in DOMAIN ss.plan :
                      /\ ss.plan[j][2] = IF j % 2 = 1 THEN "study" ELSE "break"
                      /\ ss.plan[j][1] <=
                           IF j % 2 = 1 THEN call.focus_len ELSE call.short_break
                /\ SumPlan(ss.plan) = call.minutes

C7_SplitContract == []SplitContract /\ <>(pc = "split_return")

C7_Witness ==
    /\ pc = "split_return"
    /\ call.minutes > 0
    /\ Len(ss.plan) >= 4
    /\ ss.plan[Len(ss.plan)][2] = "break"
    /\ ss.plan[Len(ss.plan)][1] < call.short_break

(* C8: the persisted last_plan is the rows of the plan of the latest       *)
(* example or plan command, empty after a reset or before any plan; what   *)
(* last shows is the persisted rows.                                       *)
C8_LastPlanRecord ==
    /\ Persisted = to_dict_records(built)
    /\ reply.kind = "last" =>
          /\ Len(reply.md) = Len(Persisted)
          /\ \A j \in DOMAIN Persisted :
                reply.md[j] = <<Persisted[j].start, Persisted[j].end,
                                Persisted[j].duration_min, Persisted[j].type,
                                Persisted[j].subject>>

C8_Witness ==
    /\ reply.kind = "last"
    /\ Len(Persisted) >= 6
    /\ \E j \in DOMAIN Persisted : Persisted[j].type = "break"

(* C9: for a total above zero and the subjects being the keys of the       *)
(* priorities, the durations of a returned plan sum to the total plus      *)
(* long_break_len for every long_break_every-th study block.               *)
C9_ElapsedTime ==
    (pc = "done" /\ call.total_minutes > 0)
        => SumDur(bs.rows) =
              call.total_minutes
                + call.long_break_len
                    * (Cardinality(StudyIndices(bs.rows)) \div call.long_break_every)

C9_Witness ==
    /\ pc = "done"
    /\ call.total_minutes > 0
    /\ Len(call.subjects) >= 2
    /\ call.long_break_every >= 2
    /\ Cardinality(StudyIndices(bs.rows)) >= call.long_break_every
    /\ \E j \in DOMAIN bs.rows :
          /\ bs.rows[j].type = "break"
          /\ bs.rows[j].duration_min < call.short_break

(* C10: with a total of at least one minute the loop never decrements an   *)
(* allocation at or below min_block, every allocation stays at least 1,    *)
(* and every listed subject has a study block in the returned plan.        *)
AllocationFloor ==
    /\ (pc \in {"dist_loop", "dist_return", "rows", "done"} /\ call.total_minutes >= 1)
          => \A k \in Range(dt.keys) : dt.raw[k] >= 1
    /\ (pc = "done" /\ call.total_minutes >= 1)
          => \A subj \in Range(call.subjects) :
                \E j \in StudyIndices(bs.rows) : bs.rows[j].subject = subj

NoDecrementAtFloor ==
    (pc = "dist_loop" /\ pc' = "dist_loop")
        => \A k \in Range(dt.keys) :
              dt'.raw[k] < dt.raw[k] => dt.raw[k] > dt.min_block

C10_FloorKept == []AllocationFloor /\ [][NoDecrementAtFloor]_vars

C10_Witness ==
    /\ pc = "done"
    /\ call.total_minutes > MIN_BLOCK
    /\ \E k \in Range(dt.keys) :
          /\ call.priorities.val[k] = 0
          /\ dt.raw[k] = MIN_BLOCK
    /\ \E k \in Range(dt.keys) :
          dt.raw[k] < IntOfProduct(call.total_minutes,
                                   normalize_weights(call.priorities).val[k])

====
